---- MODULE Spec2Model ----
(***************************************************************************)
(* Model of the school-bus tracking backend: the Bus document, the REST    *)
(* routes /location/update, /location/bus, /location/eta,                  *)
(* /driver/arrive-at-stop, /driver/next-stop, /parent/select-stop,         *)
(* PUT /bus/:id and PUT /route/:id, the socket authentication middleware   *)
(* with the connection registries and rooms, the socket handlers           *)
(* 'location_update', 'arrived_at_stop', 'get_next_stop', 'request_eta',   *)
(* 'select_stop' and 'disconnect', the push fan-out, the traffic service   *)
(* and the driver app's dashboard handlers.                                *)
(*                                                                         *)
(* Every async handler is split at its first await on the database: the    *)
(* ...Begin action covers validation and Bus.findById(...), the            *)
(* ...Complete action covers everything from bus.save() to the response.   *)
(* Coordinates are integers in micro-degrees, distances in centimetres.    *)
(***************************************************************************)
EXTENDS Integers, Sequences, FiniteSets, TLC

\* ------------------------------------------------------------------ bounds
MaxInflight == 2
MaxTime == 2
MaxLog == 2

\* --------------------------------------------------------- JS value stand-ins
\* undefined (an optional field that was not sent)
Undefined == -999
\* the number NaN
NaN == -1000000

\* ------------------------------------------------------------- the route
\* Stops of the one route of the model, all on the equator (lat 0),
\* longitudes in micro-degrees.  Stop 1 is 0.0045 degrees east of (0,0).
RouteStops ==
  << [id |-> "s1", lat |-> 0, lng |-> 4500],
     [id |-> "s2", lat |-> 0, lng |-> -4496],
     [id |-> "s3", lat |-> 0, lng |-> 20000] >>

NoRoute == "none"
TheRoute == "r1"

\* a second route of the same school, serving the first two stops
ShortRoute == "r2"

RouteIds == { TheRoute, ShortRoute }

\* the Route collection as created
InitialStopLists ==
  (TheRoute :> RouteStops) @@ (ShortRoute :> SubSeq(RouteStops, 1, 2))

\* ------------------------------------------------------- geospatial math
Abs(x) == IF x < 0 THEN -x ELSE x

\* ceil(d * 11.1195) : centimetres on the surface per micro-degree of arc
\* (R = 6371 km, R * pi / 180 = 111.195 km per degree), split so that no
\* intermediate exceeds 32 bits.
ArcCm(d) ==
  d * 11 + (d \div 10000) * 1195 + ((d % 10000) * 1195 + 9999) \div 10000

\* 2 * atan2(sqrt(a), sqrt(1 - a)) lies in [0, 180] degrees: an angle
\* difference above 180 degrees folds back.
FoldArc(d) == IF d > 180000000 THEN 360000000 - d ELSE d

\* Haversine distance in centimetres, rounded up.  With both latitudes 0
\* a = sin^2(dLon/2); with different latitudes the model's points differ by
\* at most 0.03 degrees of longitude and a = sin^2(dLat/2) up to 1 cm.
calculateDistance(lat1, lon1, lat2, lon2) ==
  IF lat1 = lat2
    THEN ArcCm(FoldArc(Abs(lon2 - lon1) % 360000000))
    ELSE ArcCm(FoldArc(Abs(lat2 - lat1) % 360000000))

\* Math.round(x) for x = num / den >= 0, den > 0, without overflow
RoundDiv(num, den) == (num \div den) + (IF 2 * (num % den) >= den THEN 1 ELSE 0)

\* Math.round(distanceKm * 60 / speedKmh) for a distance in centimetres:
\* distCm * 60 / (speed * 100000) = distCm * 3 / (speed * 5000)
EtaRound(distCm, speed) ==
  LET den == speed * 5000
      q == distCm \div den
      r == distCm % den
  IN  3 * q + RoundDiv(3 * r, den)

\* ------------------------------------------------------------------ state
VARIABLES
  bus,            \* the Bus document as stored in MongoDB
  geoIndexBuilt,  \* whether the 2dsphere index on currentLocation exists
  apiKey,         \* whether GOOGLE_MAPS_API_KEY is configured
  now,            \* server clock (new Date())
  locationLogs,   \* LocationLog collection, in insertion order
  arrivalLogs,    \* ArrivalLog collection, in insertion order
  emitted,        \* realtime events emitted by the last handler
  resp,           \* outcome of the last handler as its caller sees it
  reqs,           \* handlers suspended at an await, with what they loaded
  selectedStop,   \* parent.selectedStop of every parent
  notified,       \* sendPushNotification calls made by the last handler
  delivered,      \* sockets the last handler's events were delivered to
  sockets,        \* per socket id: the user it authenticated as, its rooms
  connectedUsers, \* the connectedUsers map: user id -> socket id
  busRooms,       \* the busRooms map: bus id -> socket id
  stopLists,      \* the Route collection: route id -> route.stops
  busInfo         \* the driver app's busInfo state (DriverDashboardScreen)

vars == << bus, geoIndexBuilt, apiKey, stopLists,
           busInfo, now, locationLogs, arrivalLogs,
           emitted, resp, reqs, selectedStop, notified, delivered,
           sockets, connectedUsers, busRooms >>

\* the connection registries and room memberships
socketVars == << sockets, connectedUsers, busRooms >>

\* settings registered on the express app with app.set(name, value)
appSettings == {}

\* req.app.get('io') is defined
IoAvailable == "io" \in appSettings

\* ------------------------------------------------------------------ users
NoUser == ""
NoStop == ""
NoBus == ""
NoSchool == ""
NoSocket == 0

TheSchool == "A"
OtherSchool == "B"
TheBus == "b1"

\* bus.school of the one bus of the model
BusSchool == TheSchool

\* a User document: the fields the handlers read
UserDoc(role, school, busId, isActive, pushToken, etaN, arrivalN) ==
  [ role |-> role, school |-> school, bus |-> busId, isActive |-> isActive,
    pushToken |-> pushToken, etaNotifications |-> etaN,
    arrivalNotifications |-> arrivalN ]

\* the User collection: the driver of the bus, the school's admin, the admin
\* of another school, an admin account that was deactivated, and four
\* parents: one with notifications on, one with ETA notifications off, one
\* without a push token, one of another school
Users ==
  ("d1" :> UserDoc("driver", TheSchool, TheBus, TRUE, FALSE, TRUE, TRUE))
  @@ ("a1" :> UserDoc("school", TheSchool, NoBus, TRUE, FALSE, TRUE, TRUE))
  @@ ("a2" :> UserDoc("school", OtherSchool, NoBus, TRUE, FALSE, TRUE, TRUE))
  @@ ("x1" :> UserDoc("school", TheSchool, NoBus, FALSE, FALSE, TRUE, TRUE))
  @@ ("p1" :> UserDoc("parent", TheSchool, NoBus, TRUE, TRUE, TRUE, TRUE))
  @@ ("p2" :> UserDoc("parent", TheSchool, NoBus, TRUE, TRUE, FALSE, TRUE))
  @@ ("p3" :> UserDoc("parent", TheSchool, NoBus, TRUE, FALSE, TRUE, TRUE))
  @@ ("p4" :> UserDoc("parent", OtherSchool, NoBus, TRUE, TRUE, TRUE, TRUE))

UserIds == DOMAIN Users

Parents == { u \in UserIds : Users[u].role = "parent" }

\* the stops of the active routes of a school: the model's route belongs to
\* TheSchool, the other school has a route with the single stop t1
SchoolStops(school) ==
  IF school = TheSchool THEN { RouteStops[i].id : i \in 1 .. Len(RouteStops) }
  ELSE IF school = OtherSchool THEN { "t1" }
  ELSE {}

\* ---------------------------------------------------------------- sockets
MaxSockets == 2

SocketIds == 1 .. MaxSockets

FreeSocket == [ user |-> NoUser, rooms |-> {} ]

BusRoom(busId) == << "bus", busId >>

\* the rooms io.on('connection') joins a socket to; sel is the user's
\* parent.selectedStop as loaded by the authentication middleware
RoomsJoined(u, sel) ==
  { << "role", Users[u].role >> }
  \cup (IF Users[u].school # NoSchool
          THEN { << "school", Users[u].school >> } ELSE {})
  \cup (IF Users[u].role = "driver" /\ Users[u].bus # NoBus
          THEN { BusRoom(Users[u].bus) } ELSE {})
  \cup (IF Users[u].role = "parent" /\ sel # NoStop
          THEN { << "school_buses", Users[u].school >> } ELSE {})

\* sockets currently in a room
RoomMembers(room) == { s \in SocketIds : room \in sockets[s].rooms }

\* socket.to(room).emit(...): every socket in the room except the sender
BroadcastFrom(s, room) == RoomMembers(room) \ {s}

\* io.to(room).emit(...): every socket in the room
BroadcastAll(room) == RoomMembers(room)

\* the socket is connected as a driver who has a bus assigned
IsDriverSocket(s) ==
  /\ sockets[s].user # NoUser
  /\ Users[sockets[s].user].role = "driver"
  /\ Users[sockets[s].user].bus # NoBus

\* ---------------------------------------------------- push notifications
\* what expo does with a push message: delivers it, answers with an error
\* ticket, or throws
PushOutcomes == { "sent", "rejected", "throws" }

\* return value of sendPushNotification
sendPushNotification(push) == push = "sent"

\* User.find({ role: 'parent', school: bus.school,
\*             'parent.selectedStop': stop._id, [preference]: true })
ParentsToNotify(stopId, preference) ==
  { p \in Parents : /\ Users[p].school = BusSchool
                    /\ selectedStop[p] = stopId
                    /\ Users[p][preference] }

\* the loop over the parents found: one call per parent with a push token
PushCalls(parents, push) ==
  { [ parent |-> p, ok |-> sendPushNotification(push) ] :
      p \in { q \in parents : Users[q].pushToken } }

sendApproachingStopNotifications(stopId, push) ==
  PushCalls(ParentsToNotify(stopId, "etaNotifications"), push)

\* ----------------------------------------------------------------- inputs
BadLat == 91000000
BadLng == 181000000

\* fixes that pass every range check
ValidFixes ==
  { [lat |-> 0, lng |-> g, heading |-> 90, speed |-> s, ts |-> 0] :
      g \in {0, 4}, s \in {0, 60} }

\* fixes with exactly one field out of range
InvalidFixes ==
  { [lat |-> BadLat, lng |-> 0, heading |-> 90, speed |-> 60, ts |-> 0],
    [lat |-> 0, lng |-> BadLng, heading |-> 90, speed |-> 60, ts |-> 0],
    [lat |-> 0, lng |-> 0, heading |-> 400, speed |-> 60, ts |-> 0],
    [lat |-> 0, lng |-> 0, heading |-> 90, speed |-> -5, ts |-> 0] }

\* the fixes a driver device may send at server time t: a valid fix measured
\* now or delayed since time 0, or an invalid fix
FixesAt(t) ==
  { [f EXCEPT !.ts = u] : f \in ValidFixes, u \in {0, t} }
  \cup { [f EXCEPT !.ts = t] : f \in InvalidFixes }

\* stop indexes a caller may send
StopIndexes == -1 .. Len(RouteStops)

\* ------------------------------------------------------------ validation
InRange(x, lo, hi) == lo <= x /\ x <= hi

\* express-validator chain of POST /location/update
RestFixValid(fix) ==
  /\ InRange(fix.lat, -90000000, 90000000)
  /\ InRange(fix.lng, -180000000, 180000000)
  /\ (fix.heading = Undefined \/ InRange(fix.heading, 0, 360))
  /\ (fix.speed = Undefined \/ fix.speed >= 0)

\* mongoose validators of busSchema.currentLocation (heading, speed)
SchemaValid(fix) ==
  /\ (fix.heading = Undefined \/ InRange(fix.heading, 0, 360))
  /\ (fix.speed = Undefined \/ fix.speed >= 0)

\* MongoDB can extract the geo keys of the point for the 2dsphere index
GeoKeysValid(fix) ==
  /\ InRange(fix.lat, -90000000, 90000000)
  /\ InRange(fix.lng, -180000000, 180000000)

\* ----------------------------------------------------------- Bus methods
\* what a handler holds after Bus.findById(...).populate('route'): the
\* fields it reads later, and whether the loaded __v is still the stored one
LoadBus ==
  [ route |-> bus.route,
    currentStopIndex |-> bus.currentStopIndex,
    currentDirection |-> bus.currentDirection,
    lat |-> bus.lat, lng |-> bus.lng,
    fresh |-> TRUE ]

\* bus.save() after updateLocation succeeds: validators pass, the geo keys
\* can be indexed, and (coordinates being an array that is $set) the
\* document's __v is the one that was loaded
UpdateLocationSaves(doc, fix) ==
  /\ SchemaValid(fix)
  /\ (geoIndexBuilt => GeoKeysValid(fix))
  /\ doc.fresh

\* the stored document after busSchema.methods.updateLocation
updateLocation(b, fix) ==
  [ b EXCEPT !.lat = fix.lat, !.lng = fix.lng,
             !.heading = fix.heading, !.speed = fix.speed,
             !.lastLocationUpdate = now ]

\* the stops of a populated route reference
StopsOf(route) == IF route = NoRoute THEN << >> ELSE stopLists[route]

\* stops[i] is defined (JavaScript indexes from 0)
HasStop(stops, i) == i \in 0 .. Len(stops) - 1

\* stops[i], for a defined element
StopAt(stops, i) == stops[i + 1]

\* ----------------------------------------------------- events, responses
Event(type, lat, lng, stopIndex, direction, stopId, etaMinutes, distance) ==
  [ type |-> type, lat |-> lat, lng |-> lng, stopIndex |-> stopIndex,
    direction |-> direction, stopId |-> stopId, etaMinutes |-> etaMinutes,
    distance |-> distance ]

\* the 'location_update' payload
PositionEvent(doc, fix) ==
  Event("location_update", fix.lat, fix.lng, doc.currentStopIndex,
        doc.currentDirection, "", 0, 0)

NoFix == [lat |-> 0, lng |-> 0, heading |-> Undefined, speed |-> Undefined, ts |-> 0]

NoTraffic == [kind |-> "", duration |-> 0, distance |-> 0]

\* what the caller of a handler gets back: the HTTP status of a REST route,
\* status 0 for a socket handler (which sends no acknowledgement); socket is
\* the socket a socket handler ran on, traffic the Directions API outcome an
\* ETA query met
Response(op, fix, stopIndex, status) ==
  [ op |-> op, fix |-> fix, stopIndex |-> stopIndex, status |-> status,
    eta |-> 0, distance |-> 0, trafficDelay |-> 0, stopId |-> "",
    socket |-> NoSocket, traffic |-> "" ]

SocketResponse(op, s, fix, stopIndex) ==
  [ Response(op, fix, stopIndex, 0) EXCEPT !.socket = s ]

\* distance in metres as reported: Math.round(distanceKm * 1000)
RoundMetres(distCm) == RoundDiv(distCm, 100)

\* speed || 30
SpeedOrDefault(speed) == IF speed = Undefined \/ speed = 0 THEN 30 ELSE speed

\* the proximity test on the distance as the events report it:
\* Math.round(distance * 1000) <= 500 (metres)
IsNear_RoundedMetres(distCm) == RoundDiv(distCm, 100) <= 500

\* the proximity test of both ingestion paths: distance <= 0.5 (km)
IsNear(distCm) == distCm <= 50000

\* the stop the proximity check of an ingested fix looks at
ProximityTarget(doc) == StopAt(StopsOf(doc.route), doc.currentStopIndex)

HasProximityTarget(doc) ==
  doc.route # NoRoute /\ HasStop(StopsOf(doc.route), doc.currentStopIndex)

DistanceToTarget(doc, fix) ==
  LET stop == ProximityTarget(doc)
  IN  calculateDistance(fix.lat, fix.lng, stop.lat, stop.lng)

\* the fix passes the proximity test against the target stop
IsApproaching(doc, fix) ==
  HasProximityTarget(doc) /\ IsNear(DistanceToTarget(doc, fix))

\* the approaching payload ('bus_approaching_stop' / 'bus_near_stop')
ApproachingEvent(type, doc, fix) ==
  LET d == DistanceToTarget(doc, fix)
  IN  Event(type, 0, 0, 0, "", ProximityTarget(doc).id,
            EtaRound(d, SpeedOrDefault(fix.speed)), RoundMetres(d))

\* sendArrivalNotifications: nothing without a route or a stop at stopIndex
sendArrivalNotifications(doc, stopIndex, push) ==
  IF doc.route = NoRoute \/ ~HasStop(StopsOf(doc.route), stopIndex)
    THEN {}
    ELSE PushCalls(ParentsToNotify(StopAt(StopsOf(doc.route), stopIndex).id,
                                   "arrivalNotifications"), push)

\* ------------------------------------------------- location ingestion
\* LocationLog document written by POST /location/update
LogEntry(doc, fix) ==
  [ lat |-> fix.lat, lng |-> fix.lng, direction |-> doc.currentDirection,
    currentStopIndex |-> doc.currentStopIndex ]

\* events POST /location/update hands to req.app.get('io')
RestEvents(doc, fix) ==
  (IF IsApproaching(doc, fix)
     THEN << ApproachingEvent("bus_near_stop", doc, fix) >> ELSE << >>)
  \o << PositionEvent(doc, fix) >>

\* a handler that emits nothing and sends no push notification
Silent == emitted' = << >> /\ delivered' = {} /\ notified' = {}

\* POST /location/update from validationResult(req) to the response, for a
\* handler that loaded doc
UpdateRestBody(doc, fix) ==
  IF ~RestFixValid(fix) THEN
    /\ resp' = Response("update", fix, 0, 400)
    /\ Silent
    /\ UNCHANGED << bus, locationLogs >>
  ELSE IF ~UpdateLocationSaves(doc, fix) THEN
    /\ resp' = Response("update", fix, 0, 500)
    /\ Silent
    /\ UNCHANGED << bus, locationLogs >>
  ELSE IF doc.route = NoRoute THEN
    \* bus.route._id of a null route throws after the save
    /\ bus' = updateLocation(bus, fix)
    /\ resp' = Response("update", fix, 0, 500)
    /\ Silent
    /\ UNCHANGED locationLogs
  ELSE
    /\ bus' = updateLocation(bus, fix)
    /\ locationLogs' = Append(locationLogs, LogEntry(doc, fix))
    /\ notified' = {}
    /\ IF IoAvailable
         THEN /\ emitted' = RestEvents(doc, fix)
              /\ delivered' = BroadcastAll(BusRoom(TheBus))
              /\ resp' = Response("update", fix, 0, 200)
         ELSE \* req.app.get('io') is undefined: .to(...) throws
              /\ emitted' = << >>
              /\ delivered' = {}
              /\ resp' = Response("update", fix, 0, 500)

\* events of socket.on('location_update') after a successful save
SocketEvents(doc, fix) ==
  << PositionEvent(doc, fix) >>
  \o (IF IsApproaching(doc, fix)
        THEN << ApproachingEvent("bus_approaching_stop", doc, fix) >> ELSE << >>)

\* socket.on('location_update') with the push fan-out awaited before the
\* emits and a push error that escapes sendPushNotification: the handler's
\* catch block then skips the emits
SocketLocationBody_PushBeforeEmit(s, doc, fix, push) ==
  /\ resp' = SocketResponse("location_update", s, fix, 0)
  /\ UNCHANGED locationLogs
  /\ IF UpdateLocationSaves(doc, fix)
       THEN LET calls == IF IsApproaching(doc, fix)
                           THEN sendApproachingStopNotifications(ProximityTarget(doc).id, push)
                           ELSE {}
            IN  /\ bus' = updateLocation(bus, fix)
                /\ notified' = calls
                /\ IF calls # {} /\ push = "throws"
                     THEN emitted' = << >> /\ delivered' = {}
                     ELSE /\ emitted' = SocketEvents(doc, fix)
                          /\ delivered' = BroadcastFrom(s, BusRoom(Users[sockets[s].user].bus))
       ELSE /\ Silent
            /\ UNCHANGED bus

\* socket.on('location_update') on socket s after Bus.findById, for a
\* handler that loaded doc; a rejected save is caught and logged only
SocketLocationBody(s, doc, fix, push) ==
  /\ resp' = SocketResponse("location_update", s, fix, 0)
  /\ UNCHANGED locationLogs
  /\ IF UpdateLocationSaves(doc, fix)
       THEN /\ bus' = updateLocation(bus, fix)
            /\ emitted' = SocketEvents(doc, fix)
            /\ delivered' = BroadcastFrom(s, BusRoom(Users[sockets[s].user].bus))
            /\ notified' =
                 IF IsApproaching(doc, fix)
                   THEN sendApproachingStopNotifications(ProximityTarget(doc).id, push)
                   ELSE {}
       ELSE /\ Silent
            /\ UNCHANGED bus

\* ------------------------------------------------------ arrive transition
\* ArrivalLog document written by POST /driver/arrive-at-stop
ArrivalEntry(doc, stopIndex) ==
  [ stop |-> StopAt(StopsOf(doc.route), stopIndex).id, stopIndex |-> stopIndex,
    direction |-> doc.currentDirection ]

\* a save that writes the whole loaded document back instead of the
\* modified paths
SaveStopIndex_WholeDocument(doc, stopIndex) ==
  [bus EXCEPT !.currentStopIndex = stopIndex, !.lat = doc.lat, !.lng = doc.lng]

\* bus.currentStopIndex = stopIndex; await bus.save(): the save writes the
\* paths that differ from what was loaded
SaveStopIndex(doc, stopIndex) ==
  IF stopIndex = doc.currentStopIndex
    THEN bus
    ELSE [bus EXCEPT !.currentStopIndex = stopIndex]

\* POST /driver/arrive-at-stop, for a handler that loaded doc
ArriveRestBody(doc, stopIndex) ==
  /\ Silent
  /\ IF stopIndex < 0 THEN
       \* body('stopIndex').isInt({ min: 0 })
       /\ resp' = Response("arrive", NoFix, stopIndex, 400)
       /\ UNCHANGED << bus, arrivalLogs >>
     ELSE IF doc.route = NoRoute THEN
       /\ resp' = Response("arrive", NoFix, stopIndex, 404)
       /\ UNCHANGED << bus, arrivalLogs >>
     ELSE IF stopIndex >= Len(StopsOf(doc.route)) THEN
       /\ resp' = Response("arrive", NoFix, stopIndex, 400)
       /\ UNCHANGED << bus, arrivalLogs >>
     ELSE
       /\ bus' = SaveStopIndex(doc, stopIndex)
       /\ arrivalLogs' = Append(arrivalLogs, ArrivalEntry(doc, stopIndex))
       /\ resp' = Response("arrive", NoFix, stopIndex, 200)

\* socket.on('arrived_at_stop') on socket s after Bus.findById
ArriveSocketBody(s, doc, stopIndex, push) ==
  /\ bus' = SaveStopIndex(doc, stopIndex)
  /\ emitted' = << Event("bus_arrived_at_stop", 0, 0, stopIndex, "", "", 0, 0) >>
  /\ delivered' = BroadcastFrom(s, BusRoom(Users[sockets[s].user].bus))
  /\ notified' = sendArrivalNotifications(doc, stopIndex, push)
  /\ resp' = SocketResponse("arrived_at_stop", s, NoFix, stopIndex)
  /\ UNCHANGED arrivalLogs

\* ------------------------------------------------------------ ETA engine
Reverse(seq) == [ i \in 1 .. Len(seq) |-> seq[Len(seq) + 1 - i] ]

\* routeSchema.methods.getStopsForDirection
getStopsForDirection(stops, direction) ==
  IF direction = "from_school" THEN Reverse(stops) ELSE stops

\* routeSchema.methods.calculateETA returns null
calculateETAIsNull(stops, targetStopIndex, direction) ==
  Len(stops) = 0 \/ ~HasStop(getStopsForDirection(stops, direction), targetStopIndex)

\* routeSchema.methods.calculateETA: etaMinutes, distance (in 0.01 km) and
\* the stop the distance was measured to
calculateETA(stops, currentLat, currentLng, targetStopIndex, direction) ==
  LET targetStop == StopAt(getStopsForDirection(stops, direction), targetStopIndex)
      distance == calculateDistance(currentLat, currentLng, targetStop.lat, targetStop.lng)
  IN  [ etaMinutes |-> EtaRound(distance, 30),
        distance |-> RoundDiv(distance, 1000),
        targetStop |-> targetStop ]

\* calculateBasicETA of the traffic service (haversine at averageSpeed)
calculateBasicETA(originLat, originLng, destLat, destLng, averageSpeed) ==
  LET distance == calculateDistance(originLat, originLng, destLat, destLng)
  IN  [ etaMinutes |-> EtaRound(distance, averageSpeed),
        distance |-> RoundDiv(distance, 1000),
        trafficDelay |-> 0,
        hasTraffic |-> FALSE ]

\* What the Directions API call can come back with.  duration is
\* leg.duration_in_traffic.value || leg.duration.value in seconds, distance
\* is leg.distance.value in metres; Undefined when the field has no value.
TrafficOutcomes ==
  { [kind |-> k, duration |-> 0, distance |-> 0] :
      k \in {"error", "notOK", "noRoute", "noLeg", "noDuration", "noDistance"} }
  \cup
  { [kind |-> "OK", duration |-> d, distance |-> m] :
      d \in {300, Undefined}, m \in {1000, Undefined} }

\* the traffic collaborator did not deliver a well-formed route
TrafficUnavailable(outcome) ==
  outcome.kind # "OK" \/ outcome.duration = Undefined \/ outcome.distance = Undefined

\* calculateTrafficETA without its catch block: only the explicit returns
\* give null
calculateTrafficETAIsNull_Uncaught(outcome) ==
  ~apiKey \/ outcome.kind \in {"notOK", "noRoute", "noLeg"}

\* calculateTrafficETA returns null: no key, the request fails, the status
\* is not OK, there is no route or leg, or reading duration.value or
\* distance.value of a missing field throws into the catch block
calculateTrafficETAIsNull(outcome) == ~apiKey \/ outcome.kind # "OK"

\* Math.round(x / 60) of a number x >= 0 or of undefined
RoundMinutes(x) == IF x = Undefined THEN NaN ELSE RoundDiv(x, 60)

\* calculateTrafficETA for a response with status OK, a route and a leg:
\* expectedDuration = distance / 1000 / 30 * 3600 = distance * 0.12 seconds,
\* trafficDelay = Math.round(Math.max(0, duration - expectedDuration) / 60)
calculateTrafficETA(outcome) ==
  [ etaMinutes |-> RoundMinutes(outcome.duration),
    trafficDelay |->
      IF outcome.duration = Undefined \/ outcome.distance = Undefined
        THEN NaN
        ELSE LET over == outcome.duration * 100 - outcome.distance * 12
             IN  IF over <= 0 THEN 0 ELSE RoundDiv(over, 6000) ]

\* x || 0
OrZero(x) == IF x = NaN \/ x = Undefined THEN 0 ELSE x

\* GET /location/eta/:busId/:stopIndex for the bus document b as loaded
EtaBody(b, stopIndex, outcome) ==
  LET stops == StopsOf(b.route)
      R(status) == Response("eta", NoFix, stopIndex, status)
  IN
  /\ Silent
  /\ IF b.route = NoRoute THEN resp' = R(404)
     ELSE IF stopIndex >= Len(stops) THEN resp' = R(400)
     ELSE IF calculateETAIsNull(stops, stopIndex, b.currentDirection) THEN resp' = R(400)
     ELSE
       LET eta == calculateETA(stops, b.lat, b.lng, stopIndex, b.currentDirection)
           targetStop == StopAt(stops, stopIndex)
           traffic == calculateTrafficETA(outcome)
           useTraffic == ~calculateTrafficETAIsNull(outcome)
       IN  resp' = [ R(200) EXCEPT
                       !.stopId = targetStop.id,
                       !.traffic = outcome.kind,
                       !.eta = IF useTraffic THEN traffic.etaMinutes ELSE eta.etaMinutes,
                       !.distance = eta.distance,
                       !.trafficDelay = IF useTraffic THEN OrZero(traffic.trafficDelay) ELSE 0 ]

\* the ETA query answers before calculateTrafficETA sends a request: an
\* error response, or the basic ETA when no API key is configured
EtaAnswersAtOnce(b, stopIndex) ==
  \/ b.route = NoRoute
  \/ stopIndex >= Len(StopsOf(b.route))
  \/ calculateETAIsNull(StopsOf(b.route), stopIndex, b.currentDirection)
  \/ ~apiKey

\* getTrafficConditions returns null, or an empty list
getTrafficConditionsIsEmpty(outcome) == ~apiKey \/ outcome.kind # "OK"

\* getOptimalRoute: the best of the routes getTrafficConditions lists (the
\* model's response has one route, without duration_in_traffic), or
\* calculateBasicETA when there is none
getOptimalRoute(outcome, originLat, originLng, destLat, destLng) ==
  IF getTrafficConditionsIsEmpty(outcome)
    THEN calculateBasicETA(originLat, originLng, destLat, destLng, 30)
    ELSE [ etaMinutes |-> RoundMinutes(outcome.duration),
           distance |-> IF outcome.distance = Undefined
                          THEN NaN ELSE RoundDiv(outcome.distance, 10),
           trafficDelay |-> IF outcome.duration = Undefined THEN NaN ELSE 0,
           hasTraffic |-> FALSE ]

\* ---------------------------------------------------------- initial state
\* a bus as the Bus schema creates it, with or without a route
NewBus(route) ==
  [ route |-> route, lat |-> 0, lng |-> 0,
    heading |-> Undefined, speed |-> Undefined,
    lastLocationUpdate |-> 0,
    currentStopIndex |-> 0, currentDirection |-> "to_school" ]

\* useState(null): the driver app has not loaded its bus
NoBusInfo == [ loaded |-> FALSE, currentStopIndex |-> 0, route |-> NoRoute ]

NoDoc ==
  [ route |-> NoRoute, currentStopIndex |-> 0,
    currentDirection |-> "to_school", lat |-> 0, lng |-> 0, fresh |-> TRUE ]

IdleReq ==
  [ pc |-> "idle", op |-> "", fix |-> NoFix, stopIndex |-> 0, doc |-> NoDoc,
    socket |-> NoSocket, traffic |-> NoTraffic ]

Handlers == 1 .. MaxInflight

\* the server before any request, with one of the Bus documents buses stored
InitState(buses, indexes, keys) ==
  /\ bus \in buses
  /\ geoIndexBuilt \in indexes
  /\ apiKey \in keys
  /\ stopLists = InitialStopLists
  /\ busInfo = NoBusInfo
  /\ now = 1
  /\ locationLogs = << >>
  /\ arrivalLogs = << >>
  /\ emitted = << >>
  /\ resp = Response("", NoFix, 0, 0)
  /\ reqs = [ h \in Handlers |-> IdleReq ]
  /\ selectedStop = [ p \in Parents |-> NoStop ]
  /\ notified = {}
  /\ delivered = {}

\* the server after start-up, with a bus as the Bus schema creates it
InitWith(routes, indexes, keys) ==
  InitState({ NewBus(r) : r \in routes }, indexes, keys)

\* no socket is connected
NoConnections ==
  /\ sockets = [ s \in SocketIds |-> FreeSocket ]
  /\ connectedUsers = [ u \in UserIds |-> NoSocket ]
  /\ busRooms = [ b \in {TheBus} |-> NoSocket ]

\* the driver's app is connected on socket 1
DriverOnline ==
  /\ sockets = [ s \in SocketIds |->
                   IF s = 1
                     THEN [ user |-> "d1", rooms |-> RoomsJoined("d1", NoStop) ]
                     ELSE FreeSocket ]
  /\ connectedUsers = [ u \in UserIds |-> IF u = "d1" THEN 1 ELSE NoSocket ]
  /\ busRooms = [ b \in {TheBus} |-> 1 ]

\* ------------------------------------- handlers run from start to finish
\* time passes on the server
Tick ==
  /\ now < MaxTime
  /\ now' = now + 1
  /\ UNCHANGED << bus, geoIndexBuilt, apiKey, stopLists,
                  busInfo, locationLogs, arrivalLogs,
                  emitted, resp, reqs, selectedStop, notified, delivered,
                  socketVars >>

\* POST /location/update
UpdateRest(fix) ==
  /\ Len(locationLogs) < MaxLog
  /\ UpdateRestBody(LoadBus, fix)
  /\ UNCHANGED << geoIndexBuilt, apiKey, stopLists,
                  busInfo, now, arrivalLogs, reqs,
                  selectedStop, socketVars >>

\* socket 'location_update' sent on socket s
UpdateSocket(s, fix, push) ==
  /\ IsDriverSocket(s)
  /\ SocketLocationBody(s, LoadBus, fix, push)
  /\ UNCHANGED << geoIndexBuilt, apiKey, stopLists,
                  busInfo, now, arrivalLogs, reqs,
                  selectedStop, socketVars >>

\* POST /driver/arrive-at-stop
ArriveRest(stopIndex) ==
  /\ Len(arrivalLogs) < MaxLog
  /\ ArriveRestBody(LoadBus, stopIndex)
  /\ UNCHANGED << geoIndexBuilt, apiKey, stopLists,
                  busInfo, now, locationLogs, reqs,
                  selectedStop, socketVars >>

\* socket 'arrived_at_stop' sent on socket s
ArriveSocket(s, stopIndex, push) ==
  /\ IsDriverSocket(s)
  /\ ArriveSocketBody(s, LoadBus, stopIndex, push)
  /\ UNCHANGED << geoIndexBuilt, apiKey, stopLists,
                  busInfo, now, locationLogs, reqs,
                  selectedStop, socketVars >>

\* GET /location/eta/:busId/:stopIndex
EtaQuery(stopIndex, outcome) ==
  /\ EtaBody(bus, stopIndex, outcome)
  /\ UNCHANGED << bus, geoIndexBuilt, apiKey, stopLists,
                  busInfo, now, locationLogs, arrivalLogs,
                  reqs, selectedStop, socketVars >>

\* a caller asks getOptimalRoute for the way from the bus to stop stopIndex
OptimalRouteQuery(stopIndex, outcome) ==
  /\ bus.route # NoRoute /\ HasStop(StopsOf(bus.route), stopIndex)
  /\ LET stop == StopAt(StopsOf(bus.route), stopIndex)
         best == getOptimalRoute(outcome, bus.lat, bus.lng, stop.lat, stop.lng)
     IN  resp' = [ Response("optimal", NoFix, stopIndex, 0) EXCEPT
                     !.stopId = stop.id, !.traffic = outcome.kind,
                     !.eta = best.etaMinutes, !.distance = best.distance,
                     !.trafficDelay = best.trafficDelay ]
  /\ Silent
  /\ UNCHANGED << bus, geoIndexBuilt, apiKey, stopLists,
                  busInfo, now, locationLogs, arrivalLogs,
                  reqs, selectedStop, socketVars >>

\* ------------------------------------------------------- stop progression
\* arrive transitions on both paths, on a bus with or without a route
InitArrive == InitWith({NoRoute, TheRoute}, {TRUE}, {FALSE}) /\ DriverOnline

NextArrive ==
  \/ \E i \in StopIndexes : ArriveRest(i)
  \/ \E s \in SocketIds, i \in StopIndexes, push \in PushOutcomes :
       ArriveSocket(s, i, push)

SpecArrive == InitArrive /\ [][NextArrive]_vars

\* ---------------------------------------------------- location ingestion
\* stop indexes the driver confirms while fixes are ingested: the second
\* stop, and one past the end of the route
IngestStopIndexes == {1, Len(RouteStops)}

InitIngest == InitWith({NoRoute, TheRoute}, BOOLEAN, {FALSE}) /\ DriverOnline

NextIngest ==
  \/ Tick
  \/ \E fix \in FixesAt(now) : UpdateRest(fix)
  \/ \E s \in SocketIds, fix \in FixesAt(now), push \in PushOutcomes :
       UpdateSocket(s, fix, push)
  \/ \E s \in SocketIds, i \in IngestStopIndexes, push \in PushOutcomes :
       ArriveSocket(s, i, push)

SpecIngest == InitIngest /\ [][NextIngest]_vars

\* -------------------------------------------------------------- ETA query
\* ETA queries against a bus that moves between valid positions
EtaFixes == ValidFixes

InitEta == InitWith({NoRoute, TheRoute}, {TRUE}, BOOLEAN) /\ DriverOnline

NextEta ==
  \/ \E s \in SocketIds, fix \in EtaFixes, push \in PushOutcomes :
       UpdateSocket(s, fix, push)
  \/ \E i \in StopIndexes, outcome \in TrafficOutcomes : EtaQuery(i, outcome)
  \/ \E i \in StopIndexes, outcome \in TrafficOutcomes :
       OptimalRouteQuery(i, outcome)

SpecEta == InitEta /\ [][NextEta]_vars

\* ------------------------------------------- handlers interleaved at await
\* the next free handler, taken in order
CanBegin(h) ==
  /\ reqs[h].pc = "idle"
  /\ \A g \in Handlers : g < h => reqs[g].pc # "idle"

\* handler h finishes; when its save of the coordinates array went through,
\* the stored __v moved on and every other loaded document is out of date
Finish(h, saved) ==
  [ g \in Handlers |->
      IF g = h THEN [reqs[g] EXCEPT !.pc = "done"]
      ELSE IF saved THEN [reqs[g] EXCEPT !.doc.fresh = FALSE]
      ELSE reqs[g] ]

\* a location handler (POST /location/update or socket 'location_update')
\* up to and including Bus.findById(...).populate('route')
LocationBegin(h, op, fix) ==
  /\ CanBegin(h)
  /\ op = "update" => RestFixValid(fix)
  /\ \E s \in SocketIds \cup {NoSocket} :
       /\ IF op = "update" THEN s = NoSocket
                           ELSE s # NoSocket /\ IsDriverSocket(s)
       /\ reqs' = [reqs EXCEPT ![h] =
                     [ IdleReq EXCEPT !.pc = "loaded", !.op = op, !.fix = fix,
                                      !.doc = LoadBus, !.socket = s ]]
  /\ UNCHANGED << bus, geoIndexBuilt, apiKey, stopLists,
                  busInfo, now, locationLogs, arrivalLogs,
                  emitted, resp, selectedStop, notified, delivered,
                  socketVars >>

\* POST /location/update from bus.updateLocation(...) to the response
UpdateRestComplete(h) ==
  /\ reqs[h].pc = "loaded" /\ reqs[h].op = "update"
  /\ Len(locationLogs) < MaxLog
  /\ UpdateRestBody(reqs[h].doc, reqs[h].fix)
  /\ reqs' = Finish(h, UpdateLocationSaves(reqs[h].doc, reqs[h].fix))
  /\ UNCHANGED << geoIndexBuilt, apiKey, stopLists,
                  busInfo, now, arrivalLogs, selectedStop,
                  socketVars >>

\* socket 'location_update' from bus.updateLocation(...) to the end
UpdateSocketComplete(h, push) ==
  /\ reqs[h].pc = "loaded" /\ reqs[h].op = "location_update"
  /\ SocketLocationBody(reqs[h].socket, reqs[h].doc, reqs[h].fix, push)
  /\ reqs' = Finish(h, UpdateLocationSaves(reqs[h].doc, reqs[h].fix))
  /\ UNCHANGED << geoIndexBuilt, apiKey, stopLists,
                  busInfo, now, arrivalLogs, selectedStop,
                  socketVars >>

\* two positions, each measured at client time 1 or 2
ConcFixes ==
  { [f EXCEPT !.ts = t] : f \in { g \in ValidFixes : g.speed = 60 }, t \in {1, 2} }

InitConc == InitWith({TheRoute}, {TRUE}, {FALSE}) /\ DriverOnline

NextConc ==
  \/ \E h \in Handlers, fix \in ConcFixes : LocationBegin(h, "update", fix)
  \/ \E h \in Handlers, fix \in ConcFixes : LocationBegin(h, "location_update", fix)
  \/ \E h \in Handlers : UpdateRestComplete(h)
  \/ \E h \in Handlers, push \in PushOutcomes : UpdateSocketComplete(h, push)

SpecConc == InitConc /\ [][NextConc]_vars

\* ------------------------------------- ETA query waiting for the traffic API
\* GET /location/eta up to `await axios.get(url, { params })`: the handler
\* answers at once, or its request to the Directions API is on its way
EtaBegin(h, stopIndex) ==
  /\ CanBegin(h)
  /\ IF EtaAnswersAtOnce(LoadBus, stopIndex)
       THEN /\ EtaBody(LoadBus, stopIndex, NoTraffic)
            /\ reqs' = [reqs EXCEPT ![h] =
                          [ IdleReq EXCEPT !.pc = "done", !.op = "eta",
                                           !.stopIndex = stopIndex,
                                           !.doc = LoadBus ]]
       ELSE /\ reqs' = [reqs EXCEPT ![h] =
                          [ IdleReq EXCEPT !.pc = "waiting", !.op = "eta",
                                           !.stopIndex = stopIndex,
                                           !.doc = LoadBus ]]
            /\ UNCHANGED << emitted, resp, notified, delivered >>
  /\ UNCHANGED << bus, geoIndexBuilt, apiKey, stopLists,
                  busInfo, now, locationLogs, arrivalLogs,
                  selectedStop, socketVars >>

\* the Directions API answers the request of handler h, or the request
\* fails; axios.get is called without a timeout, so nothing else ends the wait
TrafficReplies(h, outcome) ==
  /\ reqs[h].pc = "waiting"
  /\ reqs' = [reqs EXCEPT ![h].pc = "replied", ![h].traffic = outcome]
  /\ UNCHANGED << bus, geoIndexBuilt, apiKey, stopLists,
                  busInfo, now, locationLogs, arrivalLogs,
                  emitted, resp, selectedStop, notified, delivered,
                  socketVars >>

\* GET /location/eta from the settled axios.get to the response
EtaComplete(h) ==
  /\ reqs[h].pc = "replied"
  /\ EtaBody(reqs[h].doc, reqs[h].stopIndex, reqs[h].traffic)
  /\ reqs' = [reqs EXCEPT ![h].pc = "done"]
  /\ UNCHANGED << bus, geoIndexBuilt, apiKey, stopLists,
                  busInfo, now, locationLogs, arrivalLogs,
                  selectedStop, socketVars >>

InitEtaWait == InitWith({NoRoute, TheRoute}, {TRUE}, BOOLEAN) /\ DriverOnline

NextEtaWait ==
  \/ \E h \in Handlers, i \in StopIndexes : EtaBegin(h, i)
  \/ \E h \in Handlers, outcome \in TrafficOutcomes : TrafficReplies(h, outcome)
  \/ \E h \in Handlers : EtaComplete(h)

\* the event loop runs a handler whose awaited promise has settled; nothing
\* makes the Directions API answer
SpecEtaWait ==
  InitEtaWait /\ [][NextEtaWait]_vars
    /\ WF_vars(\E h \in Handlers : EtaComplete(h))

\* ------------------------------------------------------- stop selection
\* PUT /parent/select-stop by parent p
SelectStopRest(p, stopId) ==
  /\ Users[p].role = "parent" /\ Users[p].isActive
  /\ IF stopId \in SchoolStops(Users[p].school)
       THEN /\ selectedStop' = [selectedStop EXCEPT ![p] = stopId]
            /\ resp' = [ Response("select-stop", NoFix, 0, 200) EXCEPT
                           !.stopId = stopId ]
       ELSE /\ resp' = [ Response("select-stop", NoFix, 0, 400) EXCEPT
                           !.stopId = stopId ]
            /\ UNCHANGED selectedStop
  /\ Silent
  /\ UNCHANGED << bus, geoIndexBuilt, apiKey, stopLists,
                  busInfo, now, locationLogs, arrivalLogs,
                  reqs, socketVars >>

\* socket 'select_stop' sent on socket s
SelectStopSocket(s, stopId) ==
  /\ sockets[s].user # NoUser
  /\ Users[sockets[s].user].role = "parent"
  /\ selectedStop' = [selectedStop EXCEPT ![sockets[s].user] = stopId]
  /\ emitted' = << Event("stop_selected", 0, 0, 0, "", stopId, 0, 0) >>
  /\ delivered' = {s}
  /\ notified' = {}
  /\ resp' = [ SocketResponse("select_stop", s, NoFix, 0) EXCEPT
                 !.stopId = stopId ]
  /\ UNCHANGED << bus, geoIndexBuilt, apiKey, stopLists,
                  busInfo, now, locationLogs, arrivalLogs,
                  reqs, socketVars >>

\* ---------------------------------------------------------- notifications
\* the driver's app is connected on socket 1, parent p on socket 2
DriverAndParentOnline(p) ==
  /\ sockets = [ s \in SocketIds |->
                   IF s = 1
                     THEN [ user |-> "d1", rooms |-> RoomsJoined("d1", NoStop) ]
                   ELSE IF s = 2
                     THEN [ user |-> p, rooms |-> RoomsJoined(p, NoStop) ]
                   ELSE FreeSocket ]
  /\ connectedUsers = [ u \in UserIds |->
                          IF u = "d1" THEN 1 ELSE IF u = p THEN 2 ELSE NoSocket ]
  /\ busRooms = [ b \in {TheBus} |-> 1 ]

\* the stops parents ask for: one of the bus's route, one of the other school
NotifyStops == { "s1", "t1" }

\* a fix within 500 m of the first stop and more than 500 m from the second
NotifyFixes == { f \in ValidFixes : f.lng = 4 /\ f.speed = 60 }

NotifyStopIndexes == { 0, 1 }

InitNotify ==
  /\ InitWith({TheRoute}, {TRUE}, {FALSE})
  /\ \E p \in Parents : DriverAndParentOnline(p)

NextNotify ==
  \/ \E p \in Parents, stopId \in NotifyStops : SelectStopRest(p, stopId)
  \/ \E s \in SocketIds, stopId \in NotifyStops : SelectStopSocket(s, stopId)
  \/ \E fix \in NotifyFixes : UpdateRest(fix)
  \/ \E s \in SocketIds, fix \in NotifyFixes, push \in PushOutcomes :
       UpdateSocket(s, fix, push)
  \/ \E s \in SocketIds, i \in NotifyStopIndexes, push \in PushOutcomes :
       ArriveSocket(s, i, push)

SpecNotify == InitNotify /\ [][NextNotify]_vars

\* ------------------------------------------------------------ connections
\* what a client presents in socket.handshake.auth: no token, a token
\* jwt.verify rejects (malformed or expired), or a token signed for a user id
Credential(token, userId) == [ token |-> token, user |-> userId ]

\* a user id that is in no User document
GhostUser == "ghost"

ConnectCredentials ==
  { Credential(t, NoUser) : t \in { "none", "invalid", "expired" } }
  \cup { Credential("valid", u) : u \in { "d1", "a1", "p1", "x1", GhostUser } }

\* the authentication middleware without the isActive test
Authenticates_NoActiveCheck(cred) ==
  cred.token = "valid" /\ cred.user \in UserIds

\* io.use(...): the middleware calls next() without an error
Authenticates(cred) ==
  /\ cred.token = "valid"
  /\ cred.user \in UserIds
  /\ Users[cred.user].isActive

\* a client connects as socket s: the middleware, then io.on('connection')
Connect(s, cred) ==
  /\ sockets[s].user = NoUser
  /\ Silent
  /\ IF Authenticates(cred)
       THEN LET u == cred.user
                sel == IF u \in Parents THEN selectedStop[u] ELSE NoStop
            IN  /\ sockets' = [sockets EXCEPT ![s] =
                                 [ user |-> u, rooms |-> RoomsJoined(u, sel) ]]
                /\ connectedUsers' = [connectedUsers EXCEPT ![u] = s]
                /\ busRooms' =
                     IF Users[u].role = "driver" /\ Users[u].bus # NoBus
                       THEN [busRooms EXCEPT ![Users[u].bus] = s]
                       ELSE busRooms
                /\ resp' = SocketResponse("connection", s, NoFix, 0)
       ELSE /\ resp' = SocketResponse("connect_error", s, NoFix, 0)
            /\ UNCHANGED socketVars
  /\ UNCHANGED << bus, geoIndexBuilt, apiKey, stopLists,
                  busInfo, now, locationLogs, arrivalLogs,
                  reqs, selectedStop >>

\* socket.on('disconnect') that leaves the busRooms entry in place
Disconnect_KeepsBusRoom(s) ==
  /\ sockets[s].user # NoUser
  /\ Silent
  /\ connectedUsers' = [connectedUsers EXCEPT ![sockets[s].user] = NoSocket]
  /\ sockets' = [sockets EXCEPT ![s] = FreeSocket]
  /\ resp' = SocketResponse("disconnect", s, NoFix, 0)
  /\ UNCHANGED << bus, geoIndexBuilt, apiKey, stopLists,
                  busInfo, now, locationLogs, arrivalLogs,
                  reqs, selectedStop, busRooms >>

\* socket s disconnects: socket.on('disconnect'), and socket.io takes the
\* socket out of its rooms
Disconnect(s) ==
  /\ sockets[s].user # NoUser
  /\ Silent
  /\ LET u == sockets[s].user
     IN  /\ connectedUsers' = [connectedUsers EXCEPT ![u] = NoSocket]
         /\ busRooms' =
              IF Users[u].role = "driver" /\ Users[u].bus # NoBus
                THEN [busRooms EXCEPT ![Users[u].bus] = NoSocket]
                ELSE busRooms
  /\ sockets' = [sockets EXCEPT ![s] = FreeSocket]
  /\ resp' = SocketResponse("disconnect", s, NoFix, 0)
  /\ UNCHANGED << bus, geoIndexBuilt, apiKey, stopLists,
                  busInfo, now, locationLogs, arrivalLogs,
                  reqs, selectedStop >>

\* the stop indexes the driver confirms while clients come and go
SocketStopIndexes == { 1 }

InitSockets == InitWith({TheRoute}, {TRUE}, {FALSE}) /\ NoConnections

NextSockets ==
  \/ \E s \in SocketIds, cred \in ConnectCredentials : Connect(s, cred)
  \/ \E s \in SocketIds : Disconnect(s)
  \/ SelectStopRest("p1", "s1")
  \/ \E s \in SocketIds, fix \in NotifyFixes, push \in PushOutcomes :
       UpdateSocket(s, fix, push)
  \/ \E s \in SocketIds, i \in SocketStopIndexes, push \in PushOutcomes :
       ArriveSocket(s, i, push)

SpecSockets == InitSockets /\ [][NextSockets]_vars

\* ---------------------------------------------------------------- next stop
\* busSchema.methods.getNextStop returns null
getNextStopIsNull(b) == b.route = NoRoute \/ Len(StopsOf(b.route)) = 0

\* busSchema.methods.getNextStop: stops[(currentStopIndex + 1) % stops.length]
\* (currentStopIndex + 1 is never negative in the model)
getNextStop(b) ==
  LET stops == StopsOf(b.route)
  IN  StopAt(stops, (b.currentStopIndex + 1) % Len(stops))

\* GET /driver/next-stop
NextStopRest ==
  /\ IF bus.route = NoRoute \/ getNextStopIsNull(bus)
       THEN resp' = Response("next-stop", NoFix, bus.currentStopIndex, 404)
       ELSE resp' = [ Response("next-stop", NoFix, bus.currentStopIndex, 200)
                        EXCEPT !.stopId = getNextStop(bus).id ]
  /\ Silent
  /\ UNCHANGED << bus, geoIndexBuilt, apiKey, stopLists,
                  busInfo, now, locationLogs, arrivalLogs,
                  reqs, selectedStop, socketVars >>

\* socket 'get_next_stop' sent on socket s: the answer goes to s alone
NextStopSocket(s) ==
  /\ IsDriverSocket(s)
  /\ emitted' =
       << Event("next_stop", 0, 0, bus.currentStopIndex, bus.currentDirection,
                IF bus.route = NoRoute \/ getNextStopIsNull(bus)
                  THEN NoStop ELSE getNextStop(bus).id, 0, 0) >>
  /\ delivered' = {s}
  /\ notified' = {}
  /\ resp' = SocketResponse("get_next_stop", s, NoFix, bus.currentStopIndex)
  /\ UNCHANGED << bus, geoIndexBuilt, apiKey, stopLists,
                  busInfo, now, locationLogs, arrivalLogs,
                  reqs, selectedStop, socketVars >>

\* currentDirection as the Bus schema's enum admits it
Directions == { "to_school", "from_school" }

\* a stored bus going either way
InitNextStop ==
  /\ InitState({ [NewBus(r) EXCEPT !.currentDirection = d] :
                   r \in {NoRoute, TheRoute}, d \in Directions },
               {TRUE}, {FALSE})
  /\ DriverOnline

NextNextStop ==
  \/ NextStopRest
  \/ \E s \in SocketIds : NextStopSocket(s)
  \/ \E i \in StopIndexes : ArriveRest(i)
  \/ \E s \in SocketIds, i \in StopIndexes, push \in PushOutcomes :
       ArriveSocket(s, i, push)

SpecNextStop == InitNextStop /\ [][NextNextStop]_vars

\* ================================================================ claims
\* some handler ingests fix through POST /location/update in this step
RestIngests(fix) == UpdateRest(fix)

\* some handler ingests fix through socket 'location_update' in this step
SocketIngests(fix) ==
  \E s \in SocketIds, push \in PushOutcomes : UpdateSocket(s, fix, push)

\* the fix is stored as the vehicle's position by the handler that takes it
AcceptedRest(fix) == RestFixValid(fix) /\ UpdateLocationSaves(LoadBus, fix)

AcceptedSocket(fix) == UpdateLocationSaves(LoadBus, fix)

\* the driver confirms stop i through socket 'arrived_at_stop' in this step
SocketArrives(i) ==
  \E s \in SocketIds, push \in PushOutcomes : ArriveSocket(s, i, push)

\* events of one type among those just emitted
EventsOfType(events, types) == SelectSeq(events, LAMBDA e : e.type \in types)

PositionUnchanged == bus'.lat = bus.lat /\ bus'.lng = bus.lng

\* C1: with a route of N >= 2 stops assigned, the stored currentStopIndex
\* satisfies 0 <= currentStopIndex < N after any sequence of arrive
\* transitions on either path.
C1_StopIndexInRange ==
  bus.route # NoRoute =>
    (0 <= bus.currentStopIndex /\ bus.currentStopIndex < Len(StopsOf(bus.route)))

\* C2: an arrive transition flips the direction exactly when the resulting
\* currentStopIndex is 0, and leaves it unchanged otherwise.
C2_DirectionFlipsIffIndexZero ==
  [][ \A i \in StopIndexes :
        ((ArriveRest(i) /\ resp'.status = 200) \/ SocketArrives(i)) =>
          ((bus'.currentDirection # bus.currentDirection)
             <=> (bus'.currentStopIndex = 0)) ]_vars

\* C3: ingesting a fix whose timestamp is older than the vehicle's
\* lastUpdate changes neither the position nor currentStopIndex, on either
\* ingestion path.
C3_StaleFixDropped ==
  [][ \A fix \in FixesAt(now) :
        ((RestIngests(fix) \/ SocketIngests(fix))
           /\ fix.ts < bus.lastLocationUpdate) =>
          (PositionUnchanged /\ bus'.currentStopIndex = bus.currentStopIndex) ]_vars

\* C4: when two fixes with timestamps t1 < t2 have both been processed, in
\* whatever interleaving of their handlers, the stored position is that of
\* the fix with timestamp t2.
C4_NewestFixWins ==
  \A h1, h2 \in Handlers :
    ( /\ \A h \in Handlers : reqs[h].pc = "done"
      /\ \A h \in Handlers : reqs[h].fix.ts <= reqs[h2].fix.ts
      /\ reqs[h1].fix.ts < reqs[h2].fix.ts )
    => (bus.lat = reqs[h2].fix.lat /\ bus.lng = reqs[h2].fix.lng)

\* C5: a fix with a latitude, longitude, heading or speed out of range is
\* rejected on both ingestion paths: position and lastUpdate stay as they
\* were, no history entry is appended and no event is emitted.
C5_InvalidFixRejected ==
  [][ \A fix \in FixesAt(now) :
        ((RestIngests(fix) \/ SocketIngests(fix)) /\ ~RestFixValid(fix)) =>
          /\ PositionUnchanged
          /\ bus'.lastLocationUpdate = bus.lastLocationUpdate
          /\ locationLogs' = locationLogs
          /\ emitted' = << >> ]_vars

\* C6: every accepted fix, on either path, appends exactly one history entry
\* holding the fix's coordinates and the vehicle's direction and
\* currentStopIndex at ingestion time, and leaves the earlier entries alone.
C6_AcceptedFixLogged ==
  [][ \A fix \in FixesAt(now) :
        ((RestIngests(fix) /\ AcceptedRest(fix))
           \/ (SocketIngests(fix) /\ AcceptedSocket(fix))) =>
          locationLogs' =
            Append(locationLogs,
                   [ lat |-> fix.lat, lng |-> fix.lng,
                     direction |-> bus.currentDirection,
                     currentStopIndex |-> bus.currentStopIndex ]) ]_vars

\* C7: every accepted fix results in exactly one position event,
\* whether or not the vehicle is near a stop or has a target stop.
C7_AcceptedFixEmitsPosition ==
  [][ \A fix \in FixesAt(now) :
        ((RestIngests(fix) /\ AcceptedRest(fix))
           \/ (SocketIngests(fix) /\ AcceptedSocket(fix))) =>
          Len(EventsOfType(emitted', {"location_update"})) = 1 ]_vars

\* C8: a valid fix for a vehicle without a route is accepted without an
\* error to the operator: position and lastUpdate are updated, a position
\* event is emitted and no approaching event is.
C8_NoRouteFixAccepted ==
  [][ \A fix \in FixesAt(now) :
        ((RestIngests(fix) \/ SocketIngests(fix))
           /\ RestFixValid(fix) /\ bus.route = NoRoute) =>
          /\ resp'.status \in {0, 200}
          /\ bus'.lat = fix.lat /\ bus'.lng = fix.lng
          /\ bus'.lastLocationUpdate = now
          /\ Len(EventsOfType(emitted', {"location_update"})) = 1
          /\ EventsOfType(emitted', {"bus_approaching_stop", "bus_near_stop"}) = << >> ]_vars

\* C9: for an accepted fix of a vehicle that has a target stop, an
\* approaching event is emitted if and only if the fix is at most 500 m
\* from the target stop.
C9_ApproachingIffWithin500m ==
  [][ \A fix \in FixesAt(now) :
        (((RestIngests(fix) /\ AcceptedRest(fix))
            \/ (SocketIngests(fix) /\ AcceptedSocket(fix)))
           /\ HasProximityTarget(LoadBus)) =>
          ((EventsOfType(emitted', {"bus_approaching_stop", "bus_near_stop"}) # << >>)
             <=> (DistanceToTarget(LoadBus, fix) <= 50000)) ]_vars

\* the ETA query is for a stop of the vehicle's route
EtaQueryIsValid(i) ==
  bus.route # NoRoute /\ HasStop(StopsOf(bus.route), i)

\* the stop with index i in the order of the vehicle's direction
DirectionStop(i) ==
  StopAt(getStopsForDirection(StopsOf(bus.route), bus.currentDirection), i)

\* C10: when the traffic collaborator is unavailable (no API key, request
\* failure, non-OK status or malformed response) the ETA query still
\* answers, with traffic delay 0 and an etaMinutes that is >= 0 and equal to
\* round(haversineDistanceKm / 30 * 60).
C10_FallbackEtaWhenTrafficUnavailable ==
  [][ \A i \in StopIndexes, outcome \in TrafficOutcomes :
        (EtaQuery(i, outcome) /\ EtaQueryIsValid(i)
           /\ (~apiKey \/ TrafficUnavailable(outcome))) =>
          /\ resp'.status = 200
          /\ resp'.trafficDelay = 0
          /\ resp'.eta >= 0
          /\ resp'.eta =
               calculateBasicETA(bus.lat, bus.lng, DirectionStop(i).lat,
                                 DirectionStop(i).lng, 30).etaMinutes ]_vars


\* the traffic-aware path fails: no credential, a failed request, a non-OK
\* status, or a response without a route, leg, duration or distance
TrafficPathFails(outcome) == ~apiKey \/ outcome.kind # "OK"

\* C11: a failure of the traffic-aware path is absorbed inside the ETA
\* engine: calculateTrafficETA returns null and getOptimalRoute the basic
\* ETA, so the ETA query answers 200 with the route's own estimate and no
\* error reaches its caller.
C11_TrafficFailureAbsorbed ==
  [][ \A i \in StopIndexes, outcome \in TrafficOutcomes :
        /\ (EtaQuery(i, outcome) /\ EtaQueryIsValid(i)) =>
             /\ resp'.status = 200
             /\ TrafficPathFails(outcome) =>
                  /\ resp'.eta =
                       calculateETA(StopsOf(bus.route), bus.lat, bus.lng, i,
                                    bus.currentDirection).etaMinutes
                  /\ resp'.trafficDelay = 0
        /\ (OptimalRouteQuery(i, outcome) /\ TrafficPathFails(outcome)) =>
             /\ resp'.eta =
                  calculateBasicETA(bus.lat, bus.lng,
                                    StopAt(StopsOf(bus.route), i).lat,
                                    StopAt(StopsOf(bus.route), i).lng,
                                    30).etaMinutes
             /\ resp'.trafficDelay = 0 ]_vars

\* an ETA query was answered 200 although the request to the Directions API
\* failed
C11_Witness ==
  apiKey /\ resp.op = "eta" /\ resp.status = 200 /\ resp.traffic = "error"

\* C12: every ETA query eventually produces a response, even when the
\* Directions API never replies: a handler that waits for the external call
\* is eventually done.
C12_EtaQueryEventuallyAnswers ==
  \A h \in Handlers : (reqs[h].pc = "waiting") ~> (reqs[h].pc = "done")

\* the parents sendPushNotification was called for by the last handler
NotifiedParents == { n.parent : n \in notified }

\* C13: a push notification that fails (the collaborator answers false or
\* throws) during the approaching or arrival fan-out does not make the
\* location update or the arrive fail: the position or stop index is stored
\* and the realtime events are emitted all the same.
C13_PushFailureDoesNotFailOperation ==
  [][ \A s \in SocketIds, push \in PushOutcomes :
        /\ \A fix \in NotifyFixes :
             (UpdateSocket(s, fix, push) /\ (\E n \in notified' : ~n.ok)) =>
               /\ bus'.lat = fix.lat /\ bus'.lng = fix.lng
               /\ bus'.lastLocationUpdate = now
               /\ Len(EventsOfType(emitted', {"location_update"})) = 1
               /\ Len(EventsOfType(emitted', {"bus_approaching_stop"})) = 1
               /\ resp'.status = 0
        /\ \A i \in NotifyStopIndexes :
             (ArriveSocket(s, i, push) /\ (\E n \in notified' : ~n.ok)) =>
               /\ bus'.currentStopIndex = i
               /\ Len(EventsOfType(emitted', {"bus_arrived_at_stop"})) = 1
               /\ resp'.status = 0 ]_vars

\* a location update whose push notification failed stored the position and
\* emitted the approaching event
C13_Witness ==
  /\ resp.op = "location_update"
  /\ \E n \in notified : ~n.ok
  /\ bus.lat = resp.fix.lat /\ bus.lng = resp.fix.lng
  /\ EventsOfType(emitted, {"bus_approaching_stop"}) # << >>

\* the parents the approaching fan-out for stop stopId is meant for
SubscribersOf(stopId) ==
  { p \in Parents : selectedStop[p] = stopId /\ Users[p].etaNotifications }

\* the approaching events among those just emitted
ApproachingEmitted ==
  EventsOfType(emitted, {"bus_approaching_stop", "bus_near_stop"})

\* C14: whenever an approaching event is emitted for stop s, the
\* notification collaborator is invoked for every subscriber whose selected
\* stop is s and whose ETA-notification preference is enabled, and for no
\* other subscriber.
C14_NotifiesEverySubscriberOfStop ==
  \A k \in 1 .. Len(ApproachingEmitted) :
    NotifiedParents = SubscribersOf(ApproachingEmitted[k].stopId)

\* C18: a select-stop request changes parent.selectedStop only to a stop of
\* a route of the parent's own school, on the REST path and on the socket
\* path; any other request leaves selectedStop unchanged.
C18_SelectedStopBelongsToOwnSchool ==
  [][ \A p \in Parents :
        selectedStop'[p] # selectedStop[p] =>
          selectedStop'[p] \in SchoolStops(Users[p].school) ]_vars

\* the credential is a valid token of an existing, active user
CredentialIsGood(cred) ==
  /\ cred.token = "valid"
  /\ cred.user \in UserIds
  /\ Users[cred.user].isActive

\* sockets that appear in a registry or in a room
BoundSockets ==
  { s \in SocketIds : \/ sockets[s].user # NoUser
                      \/ sockets[s].rooms # {}
                      \/ \E u \in UserIds : connectedUsers[u] = s
                      \/ busRooms[TheBus] = s }

\* C15: a connection whose token is missing, invalid or expired, or whose
\* user does not exist or is inactive, is rejected before it is recorded in
\* a registry or joined to a room, and no event is ever delivered to it.
C15_UnauthenticatedConnectionRejected ==
  [][ /\ \A s \in SocketIds, cred \in ConnectCredentials :
           (Connect(s, cred) /\ ~CredentialIsGood(cred)) =>
             (UNCHANGED socketVars /\ s \notin BoundSockets')
      /\ \A s \in delivered' :
           /\ sockets'[s].user \in UserIds
           /\ Users[sockets'[s].user].isActive ]_vars

\* a connection attempt was rejected and left no trace
C15_Witness ==
  /\ resp.op = "connect_error"
  /\ resp.socket \notin BoundSockets

\* live connections in the scope of the bus: the admin of its school and the
\* parents of that school who have selected one of its stops
VehicleScope ==
  { s \in SocketIds :
      /\ sockets[s].user # NoUser
      /\ LET u == Users[sockets[s].user]
         IN  /\ u.school = BusSchool
             /\ \/ u.role = "school"
                \/ /\ u.role = "parent"
                   /\ selectedStop[sockets[s].user] \in SchoolStops(BusSchool) }

\* C16: every position, approaching and arrived event of the bus is
\* delivered to every live connection in the bus's scope and to no other
\* connection.
C16_EventsReachVehicleScope ==
  EventsOfType(emitted, {"location_update", "bus_approaching_stop",
                         "bus_near_stop", "bus_arrived_at_stop"}) # << >>
    => delivered = VehicleScope

\* C17: disconnecting a connection releases its registry entries and room
\* memberships and leaves the vehicle's position, currentStopIndex, direction
\* and route unchanged.
C17_DisconnectReleasesBindings ==
  [][ \A s \in SocketIds :
        Disconnect(s) => (s \notin BoundSockets' /\ bus' = bus) ]_vars

\* the driver's connection was closed after the bus had reported a position
C17_Witness ==
  /\ resp.op = "disconnect"
  /\ resp.socket \notin BoundSockets
  /\ bus.lastLocationUpdate > 0
  /\ \E s \in SocketIds : sockets[s].user # NoUser

\* C19: every arrive transition, on either path, writes exactly one arrival
\* log entry for the arrived stop and emits one arrived event.
C19_ArriveLogsAndEmits ==
  [][ \A i \in StopIndexes :
        ((ArriveRest(i) /\ resp'.status = 200) \/ SocketArrives(i)) =>
          /\ Len(arrivalLogs') = Len(arrivalLogs) + 1
          /\ arrivalLogs'[Len(arrivalLogs')].stopIndex = i
          /\ SubSeq(arrivalLogs', 1, Len(arrivalLogs)) = arrivalLogs
          /\ Len(EventsOfType(emitted', {"bus_arrived_at_stop"})) = 1 ]_vars

\* the stop at position (currentStopIndex + 1) mod N of the stop list in the
\* order of the bus's direction
NextStopInDirection ==
  LET stops == getStopsForDirection(StopsOf(bus.route), bus.currentDirection)
  IN  StopAt(stops, (bus.currentStopIndex + 1) % Len(stops))

InitDirection ==
  /\ InitState({ [NewBus(TheRoute) EXCEPT !.currentDirection = d] :
                   d \in Directions },
               {TRUE}, BOOLEAN)
  /\ DriverOnline

NextDirection ==
  \/ \E i \in StopIndexes, outcome \in TrafficOutcomes : EtaQuery(i, outcome)
  \/ NextStopRest
  \/ \E s \in SocketIds, fix \in ValidFixes, push \in PushOutcomes :
       UpdateSocket(s, fix, push)
  \/ \E i \in StopIndexes : ArriveRest(i)

SpecDirection == InitDirection /\ [][NextDirection]_vars

\* the stop routeSchema.methods.calculateETA measures the distance to for
\* stop index i of the stored bus
EtaTargetStop(i) ==
  calculateETA(StopsOf(bus.route), bus.lat, bus.lng, i,
               bus.currentDirection).targetStop

C22_EtaMinutesNonNegativeWhole ==
  /\ \A k \in 1 .. Len(ApproachingEmitted) :
       ApproachingEmitted[k].etaMinutes \in Nat
  /\ (resp.op = "eta" /\ resp.status = 200) => resp.eta \in Nat

\* --------------------------------------------------- the 500 m scenario
\* fixes at (0,0) and 0.000004 degrees east of it, with a speed, with speed
\* 0 and without one
ScenarioFixes ==
  { [lat |-> 0, lng |-> g, heading |-> 90, speed |-> s, ts |-> 0] :
      g \in {0, 4}, s \in {Undefined, 0, 60} }

\* stop indexes the driver confirms in the scenario
ScenarioStopIndexes == { 0, 1 }

InitScenario == InitWith({TheRoute}, {TRUE}, {FALSE}) /\ DriverOnline

NextScenario ==
  \/ \E fix \in ScenarioFixes : UpdateRest(fix)
  \/ \E s \in SocketIds, fix \in ScenarioFixes, push \in PushOutcomes :
       UpdateSocket(s, fix, push)
  \/ \E s \in SocketIds, i \in ScenarioStopIndexes, push \in PushOutcomes :
       ArriveSocket(s, i, push)

SpecScenario == InitScenario /\ [][NextScenario]_vars

\* the fix is at (0,0) without a usable speed, and the stop the proximity
\* check looks at is at latitude 0, longitude 0.0045 degrees
ScenarioFix(fix) ==
  /\ fix.lat = 0 /\ fix.lng = 0
  /\ SpeedOrDefault(fix.speed) = 30
  /\ HasProximityTarget(LoadBus)
  /\ ProximityTarget(LoadBus).lat = 0 /\ ProximityTarget(LoadBus).lng = 4500

\* C23 as stated: for a vehicle at (0,0) whose target stop is at (0, 0.0045
\* degrees), ingesting the fix with the 30 km/h fallback speed emits the
\* approaching event with an ETA of 1 minute.
C23_ScenarioEmitsApproaching ==
  [][ \A fix \in ScenarioFixes :
        (((RestIngests(fix) /\ AcceptedRest(fix))
            \/ (SocketIngests(fix) /\ AcceptedSocket(fix)))
           /\ ScenarioFix(fix)) =>
          /\ Len(EventsOfType(emitted', {"bus_approaching_stop", "bus_near_stop"})) = 1
          /\ EventsOfType(emitted', {"bus_approaching_stop", "bus_near_stop"})[1].etaMinutes = 1 ]_vars

\* C23 amended: the stop at (0, 0.0045 degrees) is 500.4 m from (0,0); the
\* ETA formula gives 1 minute for it at 30 km/h, but the distance is above
\* the 500 m threshold, so ingesting the fix emits no approaching event on
\* either path.
C23_ScenarioJustOutsideThreshold ==
  [][ \A fix \in ScenarioFixes :
        (((RestIngests(fix) /\ AcceptedRest(fix))
            \/ (SocketIngests(fix) /\ AcceptedSocket(fix)))
           /\ ScenarioFix(fix)) =>
          /\ DistanceToTarget(LoadBus, fix) > 50000
          /\ RoundMetres(DistanceToTarget(LoadBus, fix)) = 500
          /\ EtaRound(DistanceToTarget(LoadBus, fix), SpeedOrDefault(fix.speed)) = 1
          /\ EventsOfType(emitted', {"bus_approaching_stop", "bus_near_stop"}) = << >> ]_vars

\* the socket path stored the fix at (0,0) for a bus whose target is the
\* stop at 0.0045 degrees and emitted the position event alone
C23_Witness ==
  /\ resp.op = "location_update"
  /\ resp.fix.lat = 0 /\ resp.fix.lng = 0 /\ SpeedOrDefault(resp.fix.speed) = 30
  /\ bus.route = TheRoute /\ bus.currentStopIndex = 0
  /\ bus.lat = 0 /\ bus.lng = 0 /\ bus.lastLocationUpdate = now
  /\ Len(EventsOfType(emitted, {"location_update"})) = 1
  /\ ApproachingEmitted = << >>

\* C24: while a vehicle stays within the proximity threshold of its target
\* stop, every accepted fix emits the approaching event again, on either
\* ingestion path: there is no per-(vehicle, stop) latch, so k consecutive
\* in-range fixes produce k approaching events.
C24_ApproachingRefiresOnEveryFix ==
  [][ \A fix \in ScenarioFixes :
        (((RestIngests(fix) /\ AcceptedRest(fix))
            \/ (SocketIngests(fix) /\ AcceptedSocket(fix)))
           /\ IsApproaching(LoadBus, fix)) =>
          Len(EventsOfType(emitted', {"bus_approaching_stop", "bus_near_stop"})) = 1 ]_vars

\* C25: REST ingestion is all-or-nothing: whenever POST /location/update
\* answers with an error status (4xx or 5xx), the vehicle's position and
\* lastUpdate are the same as before the call and the call produced no
\* history entry and no realtime event.
C25_RestErrorLeavesNoTrace ==
  [][ \A fix \in FixesAt(now) :
        (RestIngests(fix) /\ resp'.status >= 400) =>
          /\ PositionUnchanged
          /\ bus'.lastLocationUpdate = bus.lastLocationUpdate
          /\ locationLogs' = locationLogs
          /\ emitted' = << >> ]_vars

\* ------------------------------- arrive and location update interleaved
ArriveOps == { "arrive", "arrived_at_stop" }

LocationOps == { "update", "location_update" }

\* an arrive handler (POST /driver/arrive-at-stop or socket
\* 'arrived_at_stop') up to and including Bus.findById(...)
ArriveBegin(h, op, stopIndex) ==
  /\ CanBegin(h)
  /\ \E s \in SocketIds \cup {NoSocket} :
       /\ IF op = "arrive" THEN s = NoSocket
                           ELSE s # NoSocket /\ IsDriverSocket(s)
       /\ reqs' = [reqs EXCEPT ![h] =
                     [ IdleReq EXCEPT !.pc = "loaded", !.op = op,
                                      !.stopIndex = stopIndex,
                                      !.doc = LoadBus, !.socket = s ]]
  /\ UNCHANGED << bus, geoIndexBuilt, apiKey, stopLists,
                  busInfo, now, locationLogs, arrivalLogs,
                  emitted, resp, selectedStop, notified, delivered,
                  socketVars >>

\* POST /driver/arrive-at-stop from bus.currentStopIndex = stopIndex to the
\* response; the save does not touch __v
ArriveRestComplete(h) ==
  /\ reqs[h].pc = "loaded" /\ reqs[h].op = "arrive"
  /\ Len(arrivalLogs) < MaxLog
  /\ ArriveRestBody(reqs[h].doc, reqs[h].stopIndex)
  /\ reqs' = Finish(h, FALSE)
  /\ UNCHANGED << geoIndexBuilt, apiKey, stopLists,
                  busInfo, now, locationLogs, selectedStop,
                  socketVars >>

\* socket 'arrived_at_stop' from bus.currentStopIndex = stopIndex to the end
ArriveSocketComplete(h, push) ==
  /\ reqs[h].pc = "loaded" /\ reqs[h].op = "arrived_at_stop"
  /\ ArriveSocketBody(reqs[h].socket, reqs[h].doc, reqs[h].stopIndex, push)
  /\ reqs' = Finish(h, FALSE)
  /\ UNCHANGED << geoIndexBuilt, apiKey, stopLists,
                  busInfo, now, locationLogs, selectedStop,
                  socketVars >>

\* the stops the driver confirms while a fix is on its way
ConcStopIndexes == { 1, 2 }

InitArriveConc == InitWith({TheRoute}, {TRUE}, {FALSE}) /\ DriverOnline

NextArriveConc ==
  \/ \E h \in Handlers, op \in ArriveOps, i \in ConcStopIndexes :
       ArriveBegin(h, op, i)
  \/ \E h \in Handlers, fix \in ConcFixes : LocationBegin(h, "update", fix)
  \/ \E h \in Handlers, fix \in ConcFixes : LocationBegin(h, "location_update", fix)
  \/ \E h \in Handlers : ArriveRestComplete(h)
  \/ \E h \in Handlers, push \in PushOutcomes : ArriveSocketComplete(h, push)
  \/ \E h \in Handlers : UpdateRestComplete(h)
  \/ \E h \in Handlers, push \in PushOutcomes : UpdateSocketComplete(h, push)

SpecArriveConc == InitArriveConc /\ [][NextArriveConc]_vars

\* C26: when an arrive transition and a location update for the same
\* vehicle run concurrently (each loads the Bus document, changes its own
\* fields and saves), neither update is lost: once both have completed and
\* no other handler has run, currentStopIndex equals the arrived index and
\* the position equals the new fix, in every interleaving.
C26_ArriveAndUpdateBothKept ==
  \A h1, h2 \in Handlers :
    ( /\ reqs[h1].pc = "done" /\ reqs[h1].op \in ArriveOps
      /\ reqs[h2].pc = "done" /\ reqs[h2].op \in LocationOps
      /\ \A g \in Handlers \ {h1, h2} : reqs[g].pc = "idle" )
    => /\ bus.currentStopIndex = reqs[h1].stopIndex
       /\ bus.lat = reqs[h2].fix.lat /\ bus.lng = reqs[h2].fix.lng

\* an arrive and a location update that had both loaded the document before
\* either saved have completed, and both writes are in the stored document
C26_Witness ==
  \E h1, h2 \in Handlers :
    /\ reqs[h1].pc = "done" /\ reqs[h1].op \in ArriveOps
    /\ reqs[h2].pc = "done" /\ reqs[h2].op \in LocationOps
    /\ reqs[h1].doc.lng # bus.lng
    /\ reqs[h2].doc.currentStopIndex # bus.currentStopIndex
    /\ bus.currentStopIndex = reqs[h1].stopIndex
    /\ bus.lng = reqs[h2].fix.lng

\* C27: after any sequence of connects and disconnects, connectedUsers has
\* an entry for a user if and only if that user has at least one live
\* connection, and busRooms maps a bus to a socket id only if that socket is
\* still connected, also when one user holds several connections and only
\* one of them disconnects.
C27_RegistriesMatchLiveConnections ==
  /\ \A u \in UserIds :
       (connectedUsers[u] # NoSocket) <=> (\E s \in SocketIds : sockets[s].user = u)
  /\ \A b \in DOMAIN busRooms :
       busRooms[b] # NoSocket => sockets[busRooms[b]].user # NoUser

\* ------------------------------------------------------- route management
\* the accounts requireRole(['school']) lets through
SchoolAdmins == { u \in UserIds : Users[u].role = "school" /\ Users[u].isActive }

\* the school every route of the model belongs to
RouteSchool == TheSchool

\* stop lists an admin may send: the first n stops of the full list
StopListInputs == { SubSeq(RouteStops, 1, n) : n \in 1 .. Len(RouteStops) }

\* PUT /buses/:id with a routeId, by admin u: updates.route = routeId and
\* nothing else of the bus changes
AssignRoute(u, routeId) ==
  /\ IF Users[u].school # BusSchool
       THEN /\ resp' = Response("bus-update", NoFix, bus.currentStopIndex, 404)
            /\ UNCHANGED bus
       ELSE /\ bus' = [bus EXCEPT !.route = routeId]
            /\ resp' = Response("bus-update", NoFix, bus.currentStopIndex, 200)
  /\ Silent
  /\ UNCHANGED << geoIndexBuilt, apiKey, stopLists, busInfo, now, locationLogs,
                  arrivalLogs, reqs, selectedStop, socketVars >>

\* PUT /routes/:id with a stops array, by admin u: body('stops').isArray({
\* min: 2 }), then updates.stops = stops; no Bus document is touched
UpdateRoute(u, routeId, stops) ==
  /\ IF Len(stops) < 2
       THEN /\ resp' = Response("route-update", NoFix, bus.currentStopIndex, 400)
            /\ UNCHANGED stopLists
     ELSE IF Users[u].school # RouteSchool
       THEN /\ resp' = Response("route-update", NoFix, bus.currentStopIndex, 404)
            /\ UNCHANGED stopLists
     ELSE /\ stopLists' = [stopLists EXCEPT ![routeId] = stops]
          /\ resp' = Response("route-update", NoFix, bus.currentStopIndex, 200)
  /\ Silent
  /\ UNCHANGED << bus, geoIndexBuilt, apiKey, busInfo, now, locationLogs, arrivalLogs,
                  reqs, selectedStop, socketVars >>

InitRoutes == InitWith({NoRoute, TheRoute}, {TRUE}, {FALSE}) /\ DriverOnline

NextRoutes ==
  \/ \E i \in StopIndexes : ArriveRest(i)
  \/ \E u \in SchoolAdmins, r \in RouteIds : AssignRoute(u, r)
  \/ \E u \in SchoolAdmins, r \in RouteIds, stops \in StopListInputs :
       UpdateRoute(u, r, stops)

SpecRoutes == InitRoutes /\ [][NextRoutes]_vars

\* C28: assigning a different route to a vehicle, or replacing the stop list
\* of the route it is assigned to, never leaves the vehicle with a
\* currentStopIndex that is >= the number of stops of its current route.
C28_RouteChangeKeepsIndexInRange ==
  [][ ( \/ \E u \in SchoolAdmins, r \in RouteIds : AssignRoute(u, r)
        \/ \E u \in SchoolAdmins, r \in RouteIds, stops \in StopListInputs :
             UpdateRoute(u, r, stops) )
      => ( bus'.route # NoRoute =>
             bus'.currentStopIndex < Len(stopLists'[bus'.route]) ) ]_vars

\* ----------------------------------------------------------- access control
\* a handler that answers status and does nothing else
Refuse(op, stopIndex, status) ==
  /\ resp' = Response(op, NoFix, stopIndex, status)
  /\ Silent
  /\ UNCHANGED << bus, geoIndexBuilt, apiKey, stopLists,
                  busInfo, now, locationLogs,
                  arrivalLogs, reqs, selectedStop, socketVars >>

\* the roles requireRole(['parent', 'school']) lets through
QueryRoles == { "parent", "school" }

\* the access test of the REST queries: only a parent is compared with the
\* bus's school
RestAccessDenied(u) ==
  Users[u].role = "parent" /\ Users[u].school # BusSchool

\* GET /location/bus/:busId by user u
BusLocationQuery(u) ==
  IF ~Users[u].isActive THEN Refuse("bus-location", 0, 401)
  ELSE IF Users[u].role \notin QueryRoles THEN Refuse("bus-location", 0, 403)
  ELSE IF RestAccessDenied(u) THEN Refuse("bus-location", 0, 403)
  ELSE
    /\ resp' = [ Response("bus-location", NoFix, bus.currentStopIndex, 200)
                   EXCEPT !.fix.lat = bus.lat, !.fix.lng = bus.lng ]
    /\ Silent
    /\ UNCHANGED << bus, geoIndexBuilt, apiKey, stopLists,
                    busInfo, now, locationLogs,
                    arrivalLogs, reqs, selectedStop, socketVars >>

\* GET /location/eta/:busId/:stopIndex by user u: authentication, the role
\* test, the 404 of a bus without a route, the access test, then the query
EtaQueryBy(u, stopIndex, outcome) ==
  IF ~Users[u].isActive THEN Refuse("eta", stopIndex, 401)
  ELSE IF Users[u].role \notin QueryRoles THEN Refuse("eta", stopIndex, 403)
  ELSE IF bus.route # NoRoute /\ RestAccessDenied(u)
    THEN Refuse("eta", stopIndex, 403)
  ELSE EtaQuery(stopIndex, outcome)

\* socket 'request_eta' sent on socket s: parents only, the bus's school is
\* compared with the parent's, then calculateETAForParent
RequestEtaSocket(s, stopIndex) ==
  /\ sockets[s].user # NoUser
  /\ LET u == sockets[s].user
         stops == StopsOf(bus.route)
         Answer(events) ==
           /\ emitted' = events
           /\ delivered' = IF events = << >> THEN {} ELSE {s}
           /\ notified' = {}
         Error == << Event("eta_error", 0, 0, stopIndex, "", "", 0, 0) >>
     IN  IF Users[u].role # "parent" THEN Answer(<< >>)
         ELSE IF Users[u].school # BusSchool THEN Answer(Error)
         ELSE IF bus.route = NoRoute \/ ~HasStop(stops, stopIndex) THEN Answer(Error)
         ELSE LET eta == calculateETA(stops, bus.lat, bus.lng, stopIndex,
                                      bus.currentDirection)
              IN  Answer(<< Event("eta_response", 0, 0, stopIndex,
                                  bus.currentDirection,
                                  StopAt(stops, stopIndex).id,
                                  eta.etaMinutes, eta.distance) >>)
  /\ resp' = SocketResponse("request_eta", s, NoFix, stopIndex)
  /\ UNCHANGED << bus, geoIndexBuilt, apiKey, stopLists,
                  busInfo, now, locationLogs,
                  arrivalLogs, reqs, selectedStop, socketVars >>

\* the clients that connect while queries are served: the driver, a parent
\* of the bus's school and a parent of another school
AccessCredentials == { Credential("valid", u) : u \in { "d1", "p1", "p4" } }

\* the stop indexes asked for
AccessStopIndexes == { 0, Len(RouteStops) }

InitAccess == InitWith({NoRoute, TheRoute}, {TRUE}, {FALSE}) /\ NoConnections

NextAccess ==
  \/ \E s \in SocketIds, cred \in AccessCredentials : Connect(s, cred)
  \/ \E s \in SocketIds, fix \in NotifyFixes, push \in PushOutcomes :
       UpdateSocket(s, fix, push)
  \/ \E u \in UserIds : BusLocationQuery(u)
  \/ \E u \in UserIds, i \in AccessStopIndexes : EtaQueryBy(u, i, NoTraffic)
  \/ \E s \in SocketIds, i \in AccessStopIndexes : RequestEtaSocket(s, i)

SpecAccess == InitAccess /\ [][NextAccess]_vars

\* C29: a vehicle's location or ETA is returned by the query operations
\* (GET /location/bus/:busId, GET /location/eta/:busId/:stopIndex, socket
\* 'request_eta') only to a requester whose school equals the vehicle's
\* school, whether the requester is a parent or a school admin.
C29_QueriesAnswerOwnSchoolOnly ==
  [][ /\ \A u \in UserIds :
           (BusLocationQuery(u) /\ resp'.status = 200) =>
             Users[u].school = BusSchool
      /\ \A u \in UserIds, i \in AccessStopIndexes :
           (EtaQueryBy(u, i, NoTraffic) /\ resp'.status = 200) =>
             Users[u].school = BusSchool
      /\ \A s \in SocketIds, i \in AccessStopIndexes :
           (RequestEtaSocket(s, i)
              /\ EventsOfType(emitted', {"eta_response"}) # << >>) =>
             Users[sockets[s].user].school = BusSchool ]_vars

\* ---------------------------------------------------------- the driver app
\* ENDPOINTS.DRIVER of the app's api configuration
BUS_INFO == "/driver/bus"

ARRIVED_AT_STOP == "/driver/arrived-at-stop"

\* the routes the server mounts under /api/driver
DriverRoutes ==
  { << "GET", "/driver/my-bus" >>, << "GET", "/driver/my-route" >>,
    << "GET", "/driver/next-stop" >>, << "PUT", "/driver/bus-status" >>,
    << "POST", "/driver/arrive-at-stop" >>, << "GET", "/driver/profile" >>,
    << "PUT", "/driver/profile" >>, << "GET", "/driver/location-history" >> }

\* the app's copy of the bus after a successful fetchBusInfo
LoadedBusInfo(b) ==
  [ loaded |-> TRUE, currentStopIndex |-> b.currentStopIndex, route |-> b.route ]

\* nextStop is set: fetchNextStop found stops[(currentStopIndex + 1) % N]
HasNextStop(info) ==
  info.loaded /\ info.route # NoRoute /\ Len(StopsOf(info.route)) > 0

\* fetchBusInfo: on mount and whenever the app comes to the foreground
FetchBusInfo ==
  /\ IF << "GET", BUS_INFO >> \in DriverRoutes
       THEN /\ busInfo' = LoadedBusInfo(bus)
            /\ resp' = Response("bus-info", NoFix, bus.currentStopIndex, 200)
       ELSE \* the server's catch-all answers 404: the app shows an alert
            /\ busInfo' = busInfo
            /\ resp' = Response("bus-info", NoFix, 0, 404)
  /\ Silent
  /\ UNCHANGED << bus, geoIndexBuilt, apiKey, stopLists, now, locationLogs,
                  arrivalLogs, reqs, selectedStop, socketVars >>

\* handleArrivedAtStop ("Mark as Arrived"): nothing without a next stop;
\* otherwise POST ARRIVED_AT_STOP with the stop index the app holds and, on
\* an ok response, fetchBusInfo
MarkAsArrived ==
  /\ IF ~HasNextStop(busInfo) THEN
       /\ resp' = Response("mark-arrived", NoFix, 0, 0)
       /\ Silent
       /\ UNCHANGED << bus, arrivalLogs, busInfo >>
     ELSE IF << "POST", ARRIVED_AT_STOP >> \notin DriverRoutes THEN
       /\ resp' = Response("mark-arrived", NoFix, busInfo.currentStopIndex, 404)
       /\ Silent
       /\ UNCHANGED << bus, arrivalLogs, busInfo >>
     ELSE
       /\ ArriveRestBody(LoadBus, busInfo.currentStopIndex)
       /\ busInfo' = IF resp'.status = 200 /\ << "GET", BUS_INFO >> \in DriverRoutes
                       THEN LoadedBusInfo(bus') ELSE busInfo
  /\ UNCHANGED << geoIndexBuilt, apiKey, stopLists, now, locationLogs, reqs,
                  selectedStop, socketVars >>

InitDriverApp == InitWith({NoRoute, TheRoute}, {TRUE}, {FALSE}) /\ DriverOnline

NextDriverApp ==
  \/ FetchBusInfo
  \/ MarkAsArrived
  \/ \E fix \in ScenarioFixes : UpdateRest(fix)
  \/ \E s \in SocketIds, fix \in ScenarioFixes, push \in PushOutcomes :
       UpdateSocket(s, fix, push)

SpecDriverApp == InitDriverApp /\ [][NextDriverApp]_vars

\* C30: every arrival the driver confirms in the driver app ("Mark as
\* Arrived") moves the vehicle's currentStopIndex on to the next stop of its
\* route, so that after N confirmations on a route of N stops every stop
\* index has been the current stop.
C30_ConfirmAdvancesStopIndex ==
  [][ (MarkAsArrived /\ bus.route # NoRoute) =>
        bus'.currentStopIndex =
          (bus.currentStopIndex + 1) % Len(StopsOf(bus.route)) ]_vars

====
